---- MODULE Spec2Model ----
(***************************************************************************)
(* The service registry of src/shared/serviceRegistry.js: the service      *)
(* table, one circuit breaker per service, the timer-driven health sweep   *)
(* and the snapshot file.                                                  *)
(*                                                                         *)
(* The registry is a JavaScript object used from one event loop: every     *)
(* synchronous stretch of code is one atomic action, and the points where  *)
(* the code awaits (a probe's HTTP response, a file write, the file read)  *)
(* are where other actions interleave.                                     *)
(***************************************************************************)
EXTENDS Integers, Sequences, FiniteSets, Bags, TLC

VARIABLES
    services,         \* this.services: the Map, as its entries in insertion order
    circuitBreakers,  \* this.circuitBreakers: name -> breaker
    now,              \* Date.now(), in milliseconds
    healthCheckTimer, \* this.healthCheckTimer is set (an interval is active)
    sweeps,           \* running interval callbacks, each the entries it still has to probe
    writes,           \* fs.writeFile calls issued by saveRegistry and not yet settled
    file,             \* the content of registryFile
    last,             \* the last call: what it gave back and what it logged
    reports           \* per name, the outcome reports made since the breaker was created

vars == <<services, circuitBreakers, now, healthCheckTimer, sweeps, writes, file,
          last, reports>>

(***************************************************************************)
(* Program constants and the bounds of the model.                          *)
(***************************************************************************)
Threshold == 3
Timeout == 60000
MillisPerSecond == 1000
healthCheckInterval == 30000

\* The clock starts at StartTime and runs until StartTime + MaxElapsed: the
\* code reads only the time since a breaker's last failure, and one timeout
\* and a millisecond are all of it that getService tells apart.
StartTime == 70000
MaxElapsed == 60001
\* Caps of the counters the code lets grow without bound.
MaxFailures == 3
MaxFailureCount == 1
\* Caps of what may be in flight at once.
MaxSweeps == 1
MaxWrites == 1
\* The writes in flight where their order of completion is looked at.
MaxOverlap == 2
\* The time the clock runs where load balancing is looked at: a few seconds.
MaxBalancedElapsed == 3000

\* The names callers use, and those of them that services register under.
Names == {"svc-a", "svc-b"}
Registrable == {"svc-a"}

\* The replicas load balancing picks among, and the prefixes it is asked for:
\* of all of them, of one, of none (longer than a name, or no name's start).
Balanced == {"svc-a", "svc-b", "svc-c"}
Prefixes == {"svc", "svc-b", "svc-ab", "vc-a"}

\* The services the listings are looked at with, and the tags
\* findServicesByTag is asked for.
Listed == {"svc-a", "svc-b"}
Tags == {"items", "catalog", "auth"}

\* The metadata each service passes to registerService: tags, or nothing at all
\* (the default {}).
MetadataOf(name) ==
    CASE name = "svc-a" -> [tags |-> <<"catalog", "items">>]
      [] name = "svc-c" -> [tags |-> <<"lists">>]
      [] OTHER -> <<>>

\* Where load balancing is looked at the clock advances by half a second or by
\* a second: within the second its index is computed from, or out of it.
BalancedDeltas == {MillisPerSecond \div 2, MillisPerSecond}

\* The clock advances between two actions by the breaker's timeout or by a
\* millisecond more: the two sides of getService's comparison.
Deltas == {Timeout, Timeout + 1}

NoFile == [exists |-> FALSE, content |-> <<>>]
NoCall == [op |-> "none", name |-> "", val |-> "none", log |-> "none"]

(***************************************************************************)
(* The Map this.services, kept as the sequence of its values in insertion  *)
(* order: Array.from(this.services.values()) is the sequence itself.       *)
(***************************************************************************)
NamesOf(svcs) == {svcs[i].name : i \in 1..Len(svcs)}

has(svcs, name) == name \in NamesOf(svcs)

IndexOf(svcs, name) == CHOOSE i \in 1..Len(svcs) : svcs[i].name = name

get(svcs, name) == svcs[IndexOf(svcs, name)]

\* Map.prototype.set: an existing key keeps its place, a new key goes last.
set(svcs, name, service) ==
    IF has(svcs, name)
    THEN [svcs EXCEPT ![IndexOf(svcs, name)] = service]
    ELSE Append(svcs, service)

\* Map.prototype.delete
delete(svcs, name) ==
    IF has(svcs, name)
    THEN LET i == IndexOf(svcs, name)
         IN  SubSeq(svcs, 1, i - 1) \o SubSeq(svcs, i + 1, Len(svcs))
    ELSE svcs

\* this.circuitBreakers.set and this.circuitBreakers.delete
setBreaker(cbs, name, breaker) ==
    [x \in DOMAIN cbs \cup {name} |-> IF x = name THEN breaker ELSE cbs[x]]

\* (mutant: the breaker is not deleted with its entry)
deleteBreaker_Keeps(cbs, name) == cbs

deleteBreaker(cbs, name) == [x \in DOMAIN cbs \ {name} |-> cbs[x]]

(***************************************************************************)
(* The circuit breaker.                                                    *)
(***************************************************************************)
NewBreaker == [state |-> "closed", failures |-> 0, lastFailure |-> 0]

\* (mutant: a name that has a breaker keeps it)
initCircuitBreaker_KeepsExisting(cbs, serviceName) ==
    IF serviceName \in DOMAIN cbs THEN cbs ELSE setBreaker(cbs, serviceName, NewBreaker)

initCircuitBreaker(cbs, serviceName) == setBreaker(cbs, serviceName, NewBreaker)

\* (mutant: a success resets the count and leaves a half-open breaker as it is)
recordSuccess_StaysHalfOpen(cbs, serviceName) ==
    IF serviceName \in DOMAIN cbs
    THEN [cbs EXCEPT ![serviceName].failures = 0]
    ELSE cbs

\* (mutant: a success closes a half-open breaker and leaves the count as it is)
recordSuccess_KeepsCount(cbs, serviceName) ==
    IF serviceName \in DOMAIN cbs
    THEN [cbs EXCEPT ![serviceName].state = IF @ = "half-open" THEN "closed" ELSE @]
    ELSE cbs

recordSuccess(cbs, serviceName) ==
    IF serviceName \in DOMAIN cbs
    THEN [cbs EXCEPT ![serviceName] =
            [@ EXCEPT !.failures = 0,
                      !.state = IF @ = "half-open" THEN "closed" ELSE @]]
    ELSE cbs

\* The transition recordSuccess logs: the breaker was half-open and is closed.
recordSuccessLog(cbs, serviceName) ==
    IF serviceName \in DOMAIN cbs /\ cbs[serviceName].state = "half-open"
    THEN "fechado" ELSE "none"

\* recordFailure logs that the circuit is open at every failure from the
\* threshold on.
recordFailureLog(cbs, serviceName) ==
    IF serviceName \in DOMAIN cbs /\ cbs[serviceName].failures + 1 >= Threshold
    THEN "aberto" ELSE "none"

\* (mutant: a failure of a name without a breaker creates one)
recordFailure_CreatesBreaker(cbs, serviceName, t) ==
    LET had == IF serviceName \in DOMAIN cbs THEN cbs[serviceName] ELSE NewBreaker
    IN  setBreaker(cbs, serviceName,
                   [had EXCEPT !.failures = @ + 1,
                               !.lastFailure = t,
                               !.state = IF had.failures + 1 >= Threshold
                                         THEN "open" ELSE @])

\* (mutant: the breaker opens one failure late)
recordFailure_OneLate(cbs, serviceName, t) ==
    IF serviceName \in DOMAIN cbs
    THEN [cbs EXCEPT ![serviceName] =
            [@ EXCEPT !.failures = @ + 1,
                      !.lastFailure = t,
                      !.state = IF cbs[serviceName].failures + 1 > Threshold
                                THEN "open" ELSE @]]
    ELSE cbs

\* (mutant: the breaker opens one failure early)
recordFailure_OneEarly(cbs, serviceName, t) ==
    IF serviceName \in DOMAIN cbs
    THEN [cbs EXCEPT ![serviceName] =
            [@ EXCEPT !.failures = @ + 1,
                      !.lastFailure = t,
                      !.state = IF cbs[serviceName].failures + 1 >= Threshold - 1
                                THEN "open" ELSE @]]
    ELSE cbs

recordFailure(cbs, serviceName, t) ==
    IF serviceName \in DOMAIN cbs
    THEN [cbs EXCEPT ![serviceName] =
            [@ EXCEPT !.failures = @ + 1,
                      !.lastFailure = t,
                      !.state = IF cbs[serviceName].failures + 1 >= Threshold
                                THEN "open" ELSE @]]
    ELSE cbs

\* getService's test of an open breaker: it may go half-open.
TimeoutElapsed(breaker, t) == t - breaker.lastFailure > Timeout

\* (mutant: a half-open breaker lets no further lookup through)
getServiceResult_OneTrial(svcs, cbs, name, t) ==
    IF ~has(svcs, name) THEN "null"
    ELSE IF name \in DOMAIN cbs
              /\ \/ cbs[name].state = "open" /\ ~TimeoutElapsed(cbs[name], t)
                 \/ cbs[name].state = "half-open"
         THEN "CircuitOpen"
         ELSE "entry"

\* (mutant: an unknown name throws like an open breaker)
getServiceResult_ThrowsOnUnknown(svcs, cbs, name, t) ==
    IF ~has(svcs, name) \/ (name \in DOMAIN cbs /\ cbs[name].state = "open"
                              /\ ~TimeoutElapsed(cbs[name], t))
    THEN "CircuitOpen"
    ELSE "entry"

\* (mutant: an entry that is not healthy is not given out)
getServiceResult_HealthyOnly(svcs, cbs, name, t) ==
    IF ~has(svcs, name) THEN "null"
    ELSE IF name \in DOMAIN cbs /\ cbs[name].state = "open"
              /\ ~TimeoutElapsed(cbs[name], t)
         THEN "CircuitOpen"
         ELSE IF get(svcs, name).status = "healthy" THEN "entry" ELSE "null"

\* What getService(name) gives its caller: null, the entry, or the thrown error.
getServiceResult(svcs, cbs, name, t) ==
    IF ~has(svcs, name) THEN "null"
    ELSE IF name \in DOMAIN cbs /\ cbs[name].state = "open"
              /\ ~TimeoutElapsed(cbs[name], t)
         THEN "CircuitOpen"
         ELSE "entry"

\* The transition getService(name) logs.
getServiceLog(svcs, cbs, name, t) ==
    IF has(svcs, name) /\ name \in DOMAIN cbs /\ cbs[name].state = "open"
       /\ TimeoutElapsed(cbs[name], t)
    THEN "half-open" ELSE "none"

\* (mutant: an open breaker is never moved to half-open)
getServiceBreakers_StaysOpen(svcs, cbs, name, t) == cbs

\* The breakers after getService(name).
getServiceBreakers(svcs, cbs, name, t) ==
    IF has(svcs, name) /\ name \in DOMAIN cbs /\ cbs[name].state = "open"
       /\ TimeoutElapsed(cbs[name], t)
    THEN [cbs EXCEPT ![name].state = "half-open"]
    ELSE cbs

(***************************************************************************)
(* The lookups that read the table and change nothing.                     *)
(***************************************************************************)
\* String.prototype.startsWith
startsWith(name, prefix) ==
    /\ Len(prefix) <= Len(name)
    /\ SubSeq(name, 1, Len(prefix)) = prefix

\* Array.prototype.includes
includes(array, x) == \E i \in DOMAIN array : array[i] = x

\* getAllServices and getHealthyServices: arrays of the entries.
getAllServices(svcs) == svcs

getHealthyServices(svcs) == SelectSeq(svcs, LAMBDA service : service.status = "healthy")

\* (mutant: the tag alone decides)
findServicesByTag_AnyStatus(svcs, tag) ==
    SelectSeq(svcs, LAMBDA service :
        "tags" \in DOMAIN service.metadata /\ includes(service.metadata.tags, tag))

\* findServicesByTag(tag): the filter on the tag (metadata without tags has
\* none), then the filter on the status.
findServicesByTag(svcs, tag) ==
    SelectSeq(SelectSeq(svcs, LAMBDA service :
                  "tags" \in DOMAIN service.metadata
                  /\ includes(service.metadata.tags, tag)),
              LAMBDA service : service.status = "healthy")

\* What a lookup gives when it finds no entry.
Null == [name |-> "null"]

\* (mutant: the index is taken from the milliseconds)
getServiceWithLoadBalancingResult_Millis(svcs, serviceName, t) ==
    LET matching == SelectSeq(svcs, LAMBDA service :
                        startsWith(service.name, serviceName)
                        /\ service.status = "healthy")
    IN  IF Len(matching) = 0 THEN Null
        ELSE matching[(t % Len(matching)) + 1]

\* getServiceWithLoadBalancing(serviceName) at time t: the filter, then the
\* entry at Math.floor(Date.now() / 1000) % services.length (arrays count
\* from 0, sequences from 1).
getServiceWithLoadBalancingResult(svcs, serviceName, t) ==
    LET matching == SelectSeq(svcs, LAMBDA service :
                        startsWith(service.name, serviceName)
                        /\ service.status = "healthy")
    IN  IF Len(matching) = 0 THEN Null
        ELSE matching[((t \div MillisPerSecond) % Len(matching)) + 1]

(***************************************************************************)
(* The snapshot: JSON.stringify of the table's values, and its parse.      *)
(***************************************************************************)
\* JSON.stringify(Array.from(this.services.values())): one object per entry, in
\* the Map's order, here the values of its properties.
Serialize(svcs) ==
    [i \in 1..Len(svcs) |->
       <<svcs[i].name, svcs[i].metadata, svcs[i].status, svcs[i].failureCount>>]

\* JSON.parse of a snapshot: the entries as objects again.
Parse(content) ==
    [i \in 1..Len(content) |->
       [name |-> content[i][1], metadata |-> content[i][2], status |-> content[i][3],
        failureCount |-> content[i][4]]]

\* saveRegistry: the content is computed at the call, the write settles later.
\* waiter is the call that awaits it and returns a value once it has settled,
\* NoWaiter when what awaits it returns nothing. The end of shutdown and of a
\* sweep, which return nothing, is recorded where it is followed.
NoWaiter == [op |-> "none", name |-> ""]

Waiter(op, followed) == IF followed THEN [op |-> op, name |-> ""] ELSE NoWaiter

saveRegistry(ws, svcs, waiter) ==
    ws (+) SetToBag({[content |-> Serialize(svcs), waiter |-> waiter]})

\* The bound of the writes in flight: a step is taken only if it leaves at most
\* cap of them.
WritesWithin(cap) == BagCardinality(writes') <= cap

\* An entry a running sweep holds no longer is the object in the table once
\* its name is set again or deleted.
MarkStale(sws, names) ==
    LET mark(todo) == [i \in 1..Len(todo) |->
                         IF todo[i].name \in names
                         THEN [todo[i] EXCEPT !.stale = TRUE] ELSE todo[i]]
        marked == {mark(t) : t \in BagToSet(sws)}
    IN  [m \in marked |->
           LET from == {t \in BagToSet(sws) : mark(t) = m}
               RECURSIVE Sum(_)
               Sum(S) == IF S = {} THEN 0
                         ELSE LET x == CHOOSE x \in S : TRUE
                              IN  sws[x] + Sum(S \ {x})
           IN  Sum(from)]


(***************************************************************************)
(* What the claims speak of and the code keeps no record of: the calls.    *)
(* last is the call a caller just made, with what it returned (or threw)   *)
(* and the breaker transition it logged; reports counts, per name, the     *)
(* failures reported in a row (run) since the last success or the creation *)
(* of the breaker, the time of the last of them (at), and whether no       *)
(* success was reported since the breaker was created (clean).             *)
(***************************************************************************)
Call(op, name, val, log) == [op |-> op, name |-> name, val |-> val, log |-> log]

\* A call that returns nothing is seen by what it logs.
Logged(op, name, log) == IF log = "none" THEN NoCall ELSE Call(op, name, "undefined", log)

NoReports == [n \in Names \cup Balanced |-> [run |-> 0, at |-> 0, clean |-> TRUE]]

reportCreated(r, names) ==
    [n \in DOMAIN r |-> IF n \in names THEN [run |-> 0, at |-> 0, clean |-> TRUE] ELSE r[n]]

reportSuccess(r, name) ==
    IF has(services, name)
    THEN [r EXCEPT ![name].run = 0, ![name].clean = FALSE]
    ELSE r

reportFailure(r, name, t) ==
    IF has(services, name)
    THEN [r EXCEPT ![name].run = @ + 1, ![name].at = t]
    ELSE r

\* The cap of the failure counters: no further failure is reported at the cap.
CanFail(name) ==
    /\ reports[name].run < MaxFailures
    /\ name \in DOMAIN circuitBreakers => circuitBreakers[name].failures < MaxFailures

(***************************************************************************)
(* The operations.                                                         *)
(***************************************************************************)
NewService(name) ==
    [name |-> name, metadata |-> MetadataOf(name), status |-> "healthy",
     failureCount |-> 0]

\* registerService up to its await of saveRegistry.
registerService(name) ==
    /\ services' = set(services, name, NewService(name))
    /\ circuitBreakers' = initCircuitBreaker(circuitBreakers, name)
    /\ sweeps' = MarkStale(sweeps, {name})
    /\ writes' = saveRegistry(writes, services', [op |-> "registerService", name |-> name])
    /\ last' = NoCall
    /\ reports' = reportCreated(reports, {name})
    /\ UNCHANGED <<now, healthCheckTimer, file>>

\* (mutant: the snapshot is written for an unknown name too)
unregisterService_AlwaysSaves(name) ==
    /\ services' = delete(services, name)
    /\ circuitBreakers' = deleteBreaker(circuitBreakers, name)
    /\ sweeps' = MarkStale(sweeps, {name})
    /\ writes' = saveRegistry(writes, services',
                              [op |-> "unregisterService", name |-> name])
    /\ last' = IF has(services, name) THEN NoCall
               ELSE Call("unregisterService", name, "false", "none")
    /\ UNCHANGED <<now, healthCheckTimer, file, reports>>

\* unregisterService: up to its await of saveRegistry, or to its return false.
unregisterService(name) ==
    IF has(services, name)
    THEN /\ services' = delete(services, name)
         /\ circuitBreakers' = deleteBreaker(circuitBreakers, name)
         /\ sweeps' = MarkStale(sweeps, {name})
         /\ writes' = saveRegistry(writes, services',
                                   [op |-> "unregisterService", name |-> name])
         /\ last' = NoCall
         /\ UNCHANGED <<now, healthCheckTimer, file, reports>>
    ELSE /\ last' = Call("unregisterService", name, "false", "none")
         /\ UNCHANGED <<services, circuitBreakers, now, healthCheckTimer, sweeps,
                        writes, file, reports>>

getService(name) ==
    /\ last' = Call("getService", name,
                    getServiceResult(services, circuitBreakers, name, now),
                    getServiceLog(services, circuitBreakers, name, now))
    /\ circuitBreakers' = getServiceBreakers(services, circuitBreakers, name, now)
    /\ UNCHANGED <<services, now, healthCheckTimer, sweeps, writes, file,
                   reports>>

\* What is seen of a report: where the reports are followed the call itself,
\* else what it logs.
Reported(op, name, log, followed) ==
    IF followed THEN Call(op, name, "undefined", log) ELSE Logged(op, name, log)

\* recordSuccess(name) and recordFailure(name), called by a caller.
RecordSuccessBy(name, followed) ==
    /\ circuitBreakers' = recordSuccess(circuitBreakers, name)
    /\ last' = Reported("recordSuccess", name, recordSuccessLog(circuitBreakers, name),
                        followed)
    /\ reports' = reportSuccess(reports, name)
    /\ UNCHANGED <<services, now, healthCheckTimer, sweeps, writes, file>>

RecordSuccess(name) == RecordSuccessBy(name, FALSE)

RecordFailureBy(name, followed) ==
    /\ CanFail(name)
    /\ circuitBreakers' = recordFailure(circuitBreakers, name, now)
    /\ last' = Reported("recordFailure", name, recordFailureLog(circuitBreakers, name),
                        followed)
    /\ reports' = reportFailure(reports, name, now)
    /\ UNCHANGED <<services, now, healthCheckTimer, sweeps, writes, file>>

RecordFailure(name) == RecordFailureBy(name, FALSE)

\* An fs.writeFile settles: it wrote the file, or failed and saveRegistry logged
\* the error. The call that awaited it returns: registerService the entry,
\* unregisterService true, shutdown and the sweep nothing.
Returned(waiter) ==
    CASE waiter.op = "registerService" ->
           Call("registerService", waiter.name, "entry", "none")
      [] waiter.op = "unregisterService" ->
           Call("unregisterService", waiter.name, "true", "none")
      [] waiter.op \in {"shutdown", "sweep"} ->
           Call(waiter.op, "", "undefined", "none")
      [] OTHER -> NoCall

\* The error fs.writeFile rejects with, had it reached the call that awaits
\* saveRegistry.
Thrown(waiter) ==
    IF waiter = NoWaiter THEN NoCall
    ELSE Call(waiter.op, waiter.name, "SnapshotIOError", "none")

\* (mutant: saveRegistry lets the error of fs.writeFile through)
saveRegistrySettled_Rethrows(ok) == IF ok THEN "resolved" ELSE "rejected"

\* How the promise of saveRegistry settles when its fs.writeFile did (ok) or
\* failed: the try/catch logs the error, so it resolves either way.
saveRegistrySettled(ok) == "resolved"

WriteSettles(w, ok) ==
    /\ BagIn(w, writes)
    /\ writes' = writes (-) SetToBag({w})
    /\ file' = IF ok THEN [exists |-> TRUE, content |-> w.content] ELSE file
    /\ last' = IF saveRegistrySettled(ok) = "resolved"
               THEN Returned(w.waiter) ELSE Thrown(w.waiter)
    /\ UNCHANGED <<services, circuitBreakers, now, healthCheckTimer, sweeps,
                   reports>>

(***************************************************************************)
(* The health sweep: the setInterval callback of startHealthChecks.        *)
(***************************************************************************)
\* The sweeps that await a probe.
SweepsRunning == BagCardinality(sweeps)

\* performHealthCheck's effect on the entry it was given, for a probe that ended
\* as outcome: "ok" (status 200), "other" (another status axios accepts) or
\* "error" (axios threw: timeout, connection error, status outside 2xx).
probedService(service, outcome) ==
    CASE outcome = "ok" -> [service EXCEPT !.status = "healthy", !.failureCount = 0]
      [] outcome = "error" ->
           [service EXCEPT !.status = "unhealthy", !.failureCount = @ + 1]
      [] OTHER -> service

\* its effect on the breakers,
probedBreakers(cbs, name, outcome, t) ==
    CASE outcome = "ok" -> recordSuccess(cbs, name)
      [] outcome = "error" -> recordFailure(cbs, name, t)
      [] OTHER -> cbs

probedReports(r, name, outcome, t) ==
    CASE outcome = "ok" -> reportSuccess(r, name)
      [] outcome = "error" -> reportFailure(r, name, t)
      [] OTHER -> r

\* The probes a sweep has in flight: the loop awaits each performHealthCheck
\* before it goes on, so the one of the first entry it still has to do.
InFlight(todo) == {todo[1].name}

\* The timer fires: the callback lists the entries and awaits the first probe,
\* or, with no entry, goes straight to saveRegistry.
Tick(followed) ==
    /\ healthCheckTimer
    /\ SweepsRunning < MaxSweeps
    /\ IF services = <<>>
       THEN /\ writes' = saveRegistry(writes, services, Waiter("sweep", followed))
            /\ UNCHANGED sweeps
       ELSE /\ sweeps' = sweeps (+) SetToBag({[i \in 1..Len(services) |->
                                   [name |-> services[i].name, stale |-> FALSE]]})
            /\ UNCHANGED writes
    /\ last' = NoCall
    /\ UNCHANGED <<services, circuitBreakers, now, healthCheckTimer, file,
                   reports>>

\* The probe a sweep awaits settles: performHealthCheck finishes and the loop
\* goes on to the next entry, or to saveRegistry after the last one.
ProbeSettles(todo, outcome, followed) ==
    LET name == todo[1].name
        live == ~todo[1].stale
        rest == Tail(todo)
    IN  /\ BagIn(todo, sweeps)
        /\ outcome = "error" =>
             /\ CanFail(name)
             /\ live => get(services, name).failureCount < MaxFailureCount
        /\ services' = IF live
                       THEN set(services, name, probedService(get(services, name), outcome))
                       ELSE services
        /\ circuitBreakers' = probedBreakers(circuitBreakers, name, outcome, now)
        /\ IF rest = <<>>
           THEN /\ sweeps' = sweeps (-) SetToBag({todo})
                /\ writes' = saveRegistry(writes, services', Waiter("sweep", followed))
           ELSE /\ sweeps' = (sweeps (-) SetToBag({todo})) (+) SetToBag({rest})
                /\ UNCHANGED writes
        /\ last' = NoCall
        /\ reports' = probedReports(reports, name, outcome, now)
        /\ UNCHANGED <<now, healthCheckTimer, file>>

(***************************************************************************)
(* initialize and shutdown.                                                *)
(***************************************************************************)
\* services.forEach of initialize: each loaded entry is set and gets a breaker.
RECURSIVE loadServices(_, _)
loadServices(svcs, loaded) ==
    IF loaded = <<>> THEN svcs
    ELSE loadServices(set(svcs, Head(loaded).name, Head(loaded)), Tail(loaded))

\* (mutant: a loaded entry's breaker takes its count from the entry's counter)
loadBreakers_FromEntries(cbs, loaded) ==
    [n \in DOMAIN cbs \cup NamesOf(loaded) |->
       IF n \in NamesOf(loaded)
       THEN [NewBreaker EXCEPT !.failures = get(loaded, n).failureCount]
       ELSE cbs[n]]

RECURSIVE loadBreakers(_, _)
loadBreakers(cbs, loaded) ==
    IF loaded = <<>> THEN cbs
    ELSE loadBreakers(initCircuitBreaker(cbs, Head(loaded).name), Tail(loaded))

\* startHealthChecks and stopHealthChecks, as the timer they leave.
startHealthChecks == TRUE

\* (mutant: the interval is not cleared)
stopHealthChecks_KeepsTimer == healthCheckTimer

stopHealthChecks == FALSE

\* initialize(), at the moment its fs.readFile settles: a missing file throws
\* into the catch, a snapshot is parsed and each entry set with a new breaker;
\* then the health checks start.
initialize ==
    LET loaded == IF file.exists THEN Parse(file.content) ELSE <<>>
    IN  /\ services' = loadServices(services, loaded)
        /\ circuitBreakers' = loadBreakers(circuitBreakers, loaded)
        /\ sweeps' = MarkStale(sweeps, NamesOf(loaded))
        /\ healthCheckTimer' = startHealthChecks
        /\ last' = NoCall
        /\ reports' = reportCreated(reports, NamesOf(loaded))
        /\ UNCHANGED <<now, writes, file>>

\* shutdown() up to its await of saveRegistry; it returns when the write settles.
shutdown(followed) ==
    /\ healthCheckTimer' = stopHealthChecks
    /\ writes' = saveRegistry(writes, services, Waiter("shutdown", followed))
    /\ last' = NoCall
    /\ UNCHANGED <<services, circuitBreakers, now, sweeps, file, reports>>

\* Time passes.
AdvanceClock ==
    /\ \E d \in Deltas :
         /\ now + d <= StartTime + MaxElapsed
         /\ now' = now + d
    /\ last' = NoCall
    /\ UNCHANGED <<services, circuitBreakers, healthCheckTimer, sweeps, writes, file,
                   reports>>

(***************************************************************************)
(* The registry after construction; no snapshot file exists yet.           *)
(***************************************************************************)
Init ==
    /\ services = <<>>
    /\ circuitBreakers = [n \in {} |-> NewBreaker]
    /\ now = StartTime
    /\ healthCheckTimer = FALSE
    /\ sweeps = EmptyBag
    /\ writes = EmptyBag
    /\ file = NoFile
    /\ last = NoCall
    /\ reports = NoReports

\* One step of the registry: a call by a caller (register under a name of reg,
\* the other calls with any name of all), or the timer, a probe or a write;
\* at most cap writes are in flight.
Step(reg, all, followed, cap) ==
    \/ \E name \in reg : registerService(name) /\ WritesWithin(cap)
    \/ \E name \in all : unregisterService(name) /\ WritesWithin(cap)
    \/ \E name \in all : getService(name)
    \/ \E name \in all : RecordSuccess(name)
    \/ \E name \in all : RecordFailure(name)
    \/ initialize
    \/ shutdown(followed) /\ WritesWithin(cap)
    \/ Tick(followed) /\ WritesWithin(cap)
    \/ \E todo \in BagToSet(sweeps), outcome \in {"ok", "other", "error"} :
         ProbeSettles(todo, outcome, followed) /\ WritesWithin(cap)
    \/ \E w \in BagToSet(writes), ok \in BOOLEAN : WriteSettles(w, ok)

\* The registry of one service, in time: the breaker's timeout can elapse.
Next == Step(Registrable, Registrable, FALSE, MaxWrites) \/ AdvanceClock

Spec == Init /\ [][Next]_vars

\* The registry called with a name no service registers under as well, at one
\* instant.
NextTable == Step(Registrable, Names, FALSE, MaxWrites)

SpecTable == Init /\ [][NextTable]_vars

\* The registry called with a name no service registers under as well, with
\* each report of a caller followed.
NextReports ==
    \/ \E name \in Registrable : registerService(name) /\ WritesWithin(MaxWrites)
    \/ \E name \in Names : unregisterService(name) /\ WritesWithin(MaxWrites)
    \/ \E name \in Names : RecordSuccessBy(name, TRUE)
    \/ \E name \in Names : RecordFailureBy(name, TRUE)
    \/ initialize
    \/ Tick(FALSE) /\ WritesWithin(MaxWrites)
    \/ \E todo \in BagToSet(sweeps), outcome \in {"ok", "other", "error"} :
         ProbeSettles(todo, outcome, FALSE) /\ WritesWithin(MaxWrites)
    \/ \E w \in BagToSet(writes), ok \in BOOLEAN : WriteSettles(w, ok)

SpecReports == Init /\ [][NextReports]_vars

\* The registry of one service, with the ends of shutdown and of the sweeps
\* followed.
NextFollowed == Step(Registrable, Registrable, TRUE, MaxWrites)

SpecFollowed == Init /\ [][NextFollowed]_vars

\* The snapshot under overlapping writes: the registry after initialize found
\* no file; services register and unregister and the sweeps run, and every
\* write succeeds, in any order.
InitStarted ==
    /\ services = <<>>
    /\ circuitBreakers = [n \in {} |-> NewBreaker]
    /\ now = StartTime
    /\ healthCheckTimer = startHealthChecks
    /\ sweeps = EmptyBag
    /\ writes = EmptyBag
    /\ file = NoFile
    /\ last = NoCall
    /\ reports = NoReports

NextOverlap ==
    \/ \E name \in Registrable : registerService(name) /\ WritesWithin(MaxOverlap)
    \/ \E name \in NamesOf(services) :
         unregisterService(name) /\ WritesWithin(MaxOverlap)
    \/ Tick(FALSE) /\ WritesWithin(MaxOverlap)
    \/ \E todo \in BagToSet(sweeps), outcome \in {"ok", "other", "error"} :
         ProbeSettles(todo, outcome, FALSE) /\ WritesWithin(MaxOverlap)
    \/ \E w \in BagToSet(writes) : WriteSettles(w, TRUE)

SpecOverlap == InitStarted /\ [][NextOverlap]_vars

\* The process ends (process.exit in the services' SIGINT handlers, or a
\* crash) and a new one constructs its registry: the table and the breakers
\* are empty, no timer is set, what was in flight is gone; the file stays.
Restart ==
    /\ services' = <<>>
    /\ circuitBreakers' = [n \in {} |-> NewBreaker]
    /\ healthCheckTimer' = FALSE
    /\ sweeps' = EmptyBag
    /\ writes' = EmptyBag
    /\ last' = NoCall
    /\ reports' = NoReports
    /\ UNCHANGED <<now, file>>

\* The registry of one service over the restarts of its process.
NextRestart == Step(Registrable, Registrable, FALSE, MaxWrites) \/ Restart

SpecRestart == Init /\ [][NextRestart]_vars

(***************************************************************************)
(* The lookups over several services.  The table is one the registry has   *)
(* after initialize, the registration of some of the services in some      *)
(* order and one sweep in which each probe succeeded or failed, every      *)
(* write settled.                                                          *)
(***************************************************************************)
Orders(names) ==
    {order \in UNION {[1..k -> names] : k \in 0..Cardinality(names)} :
        \A i, j \in DOMAIN order : i # j => order[i] # order[j]}

Range(seq) == {seq[i] : i \in DOMAIN seq}

InitSwept(names) ==
    \E order \in Orders(names) :
      \E failed \in SUBSET Range(order) :
        LET outcome(n) == IF n \in failed THEN "error" ELSE "ok"
            fresh == [n \in Range(order) |-> NewBreaker]
        IN  /\ services = [i \in DOMAIN order |->
                              probedService(NewService(order[i]), outcome(order[i]))]
            /\ circuitBreakers = [n \in Range(order) |->
                                    probedBreakers(fresh, n, outcome(n), StartTime)[n]]
            /\ reports = [n \in DOMAIN NoReports |->
                            IF n \notin Range(order) THEN NoReports[n]
                            ELSE IF n \in failed
                                 THEN [run |-> 1, at |-> StartTime, clean |-> TRUE]
                                 ELSE [run |-> 0, at |-> 0, clean |-> FALSE]]
            /\ file = [exists |-> TRUE, content |-> Serialize(services)]
    /\ now = StartTime
    /\ healthCheckTimer = TRUE
    /\ sweeps = EmptyBag
    /\ writes = EmptyBag
    /\ last = NoCall

\* Load balancing over replicas: the clock runs, for less than the interval
\* of the health checks, and callers ask for a replica.
InitBalanced == InitSwept(Balanced)

\* getServiceWithLoadBalancing(serviceName): the caller gets an entry, here by
\* its name, or null.
getServiceWithLoadBalancing(serviceName) ==
    /\ last' = Call("getServiceWithLoadBalancing", serviceName,
                    getServiceWithLoadBalancingResult(services, serviceName, now).name,
                    "none")
    /\ UNCHANGED <<services, circuitBreakers, now, healthCheckTimer, sweeps, writes,
                   file, reports>>

\* Time passes, in the steps load balancing tells apart.
AdvanceBalanced ==
    /\ \E d \in BalancedDeltas :
         /\ now + d <= StartTime + MaxBalancedElapsed
         /\ now' = now + d
    /\ last' = NoCall
    /\ UNCHANGED <<services, circuitBreakers, healthCheckTimer, sweeps, writes, file,
                   reports>>

NextBalanced ==
    \/ \E serviceName \in Prefixes : getServiceWithLoadBalancing(serviceName)
    \/ AdvanceBalanced

SpecBalanced == InitBalanced /\ [][NextBalanced]_vars

\* The listings, while the health sweeps go on: callers get arrays of entries,
\* here the entries' names.
InitListed == InitSwept(Listed)

NamesList(array) == [i \in DOMAIN array |-> array[i].name]

Listing(op, arg, result) ==
    /\ last' = Call(op, arg, NamesList(result), "none")
    /\ UNCHANGED <<services, circuitBreakers, now, healthCheckTimer, sweeps, writes,
                   file, reports>>

NextListed ==
    \/ \E tag \in Tags :
         Listing("findServicesByTag", tag, findServicesByTag(services, tag))
    \/ Listing("getHealthyServices", "", getHealthyServices(services))
    \/ Listing("getAllServices", "", getAllServices(services))
    \/ Tick(FALSE) /\ WritesWithin(MaxWrites)
    \/ \E todo \in BagToSet(sweeps), outcome \in {"ok", "other", "error"} :
         ProbeSettles(todo, outcome, FALSE) /\ WritesWithin(MaxWrites)
    \/ \E w \in BagToSet(writes), ok \in BOOLEAN : WriteSettles(w, ok)

SpecListed == InitListed /\ [][NextListed]_vars

(***************************************************************************)
(* The registry of a service that keeps failing, for as long as one likes: *)
(* time passes without end and the counters grow without end.  The code    *)
(* reads of the time only what has passed since a breaker's last failure,  *)
(* so the passing of time is kept as a shift of the timestamps back from   *)
(* now (0, the value a new breaker has, once they are further back than    *)
(* now itself, which is more than the timeout); it reads of a counter only *)
(* whether it has reached the threshold, so a counter stays at its cap.    *)
(***************************************************************************)
\* The time that passes between two steps: the period of the health checks, or
\* just more than the breaker's timeout.
FailingDeltas == {healthCheckInterval, Timeout + 1}

Back(timestamp, d) == IF timestamp > d THEN timestamp - d ELSE 0

AtMost(count, cap) == IF count > cap THEN cap ELSE count

Saturated(cbs) ==
    [n \in DOMAIN cbs |-> [cbs[n] EXCEPT !.failures = AtMost(@, MaxFailures)]]

SaturatedReports(r) ==
    [n \in DOMAIN r |-> [r[n] EXCEPT !.run = AtMost(@, MaxFailures)]]

Elapse ==
    /\ \E d \in FailingDeltas :
         /\ circuitBreakers' =
               [n \in DOMAIN circuitBreakers |->
                  [circuitBreakers[n] EXCEPT !.lastFailure = Back(@, d)]]
         /\ reports' = [n \in DOMAIN reports |-> [reports[n] EXCEPT !.at = Back(@, d)]]
    /\ last' = NoCall
    /\ UNCHANGED <<services, now, healthCheckTimer, sweeps, writes, file>>

\* A caller reports a failure.
RecordFailureAgain(name) ==
    /\ circuitBreakers' = Saturated(recordFailure(circuitBreakers, name, now))
    /\ last' = Logged("recordFailure", name, recordFailureLog(circuitBreakers, name))
    /\ reports' = SaturatedReports(reportFailure(reports, name, now))
    /\ UNCHANGED <<services, now, healthCheckTimer, sweeps, writes, file>>

\* The probe a sweep awaits fails.
ProbeFailsAgain(todo) ==
    LET name == todo[1].name
        live == ~todo[1].stale
        rest == Tail(todo)
        probed == probedService(get(services, name), "error")
    IN  /\ BagIn(todo, sweeps)
        /\ services' = IF live
                       THEN set(services, name,
                                [probed EXCEPT !.failureCount = AtMost(@, MaxFailureCount)])
                       ELSE services
        /\ circuitBreakers' = Saturated(probedBreakers(circuitBreakers, name, "error", now))
        /\ IF rest = <<>>
           THEN /\ sweeps' = sweeps (-) SetToBag({todo})
                /\ writes' = saveRegistry(writes, services', NoWaiter)
           ELSE /\ sweeps' = (sweeps (-) SetToBag({todo})) (+) SetToBag({rest})
                /\ UNCHANGED writes
        /\ last' = NoCall
        /\ reports' = SaturatedReports(probedReports(reports, name, "error", now))
        /\ UNCHANGED <<now, healthCheckTimer, file>>

\* The gateway's makeServiceRequest(serviceName) up to its await of the request
\* (getItemDetails of the list service does the same for item-service):
\* getService, and, when it gives null or throws, the catch with its
\* recordFailure. A request that is sent is pending; its failure is reported
\* later.
makeServiceRequest(serviceName) ==
    LET result == getServiceResult(services, circuitBreakers, serviceName, now)
        looked == getServiceBreakers(services, circuitBreakers, serviceName, now)
    IN  /\ IF result = "entry"
           THEN /\ circuitBreakers' = looked
                /\ last' = Call("makeServiceRequest", serviceName, "pending",
                                getServiceLog(services, circuitBreakers, serviceName, now))
                /\ UNCHANGED reports
           ELSE /\ circuitBreakers' = Saturated(recordFailure(looked, serviceName, now))
                /\ last' = Call("makeServiceRequest", serviceName,
                                IF result = "null" THEN "Unavailable" ELSE result,
                                recordFailureLog(looked, serviceName))
                /\ reports' = SaturatedReports(reportFailure(reports, serviceName, now))
        /\ UNCHANGED <<services, now, healthCheckTimer, sweeps, writes, file>>

InitFailing == InitSwept(Registrable)

NextFailing ==
    \/ \E name \in Registrable : getService(name)
    \/ Elapse
    \/ \E name \in Registrable : RecordFailureAgain(name)
    \/ \E name \in Registrable : makeServiceRequest(name)
    \/ Tick(FALSE) /\ WritesWithin(MaxWrites)
    \/ \E todo \in BagToSet(sweeps) : ProbeFailsAgain(todo) /\ WritesWithin(MaxWrites)
    \/ \E w \in BagToSet(writes), ok \in BOOLEAN : WriteSettles(w, ok)

\* Time keeps passing and callers keep calling getService.
SpecFailing ==
    /\ InitFailing
    /\ [][NextFailing]_vars
    /\ WF_vars(Elapse)
    /\ \A name \in Registrable : WF_vars(getService(name))

(***************************************************************************)
(* The claims.                                                             *)
(***************************************************************************)
Registered(n) == has(services, n)

Resolve(n) == getServiceResult(services, circuitBreakers, n, now)

\* The step is the call getService(n).
Resolved(n) == last'.op = "getService" /\ last'.name = n

\* The step reports a failure of n, by a caller or by a probe.
FailureReported(n) == reports'[n].run = reports[n].run + 1

\* The step reports a success of n, by a caller or by a probe.
SuccessReported(n) ==
    \/ RecordSuccess(n)
    \/ \E todo \in BagToSet(sweeps) : todo[1].name = n /\ ProbeSettles(todo, "ok", FALSE)

\* C1: once Threshold failures of a registered service have been reported in a
\* row, its breaker is open, and as long as less than Timeout has passed since
\* the last of them getService throws CircuitOpen.
C1_OpenAfterThresholdFailures ==
    \A n \in Names :
        (Registered(n) /\ reports[n].run >= Threshold /\ now - reports[n].at < Timeout)
        => /\ n \in DOMAIN circuitBreakers
           /\ circuitBreakers[n].state = "open"
           /\ Resolve(n) = "CircuitOpen"
           /\ (last.op = "getService" /\ last.name = n) => last.val = "CircuitOpen"

C1_Witness ==
    \E n \in Names :
        /\ reports[n].run >= Threshold
        /\ last = Call("getService", n, "CircuitOpen", "none")

\* C2: a service registered and then reported as failing fewer than Threshold
\* times, with no success reported, has its breaker closed, and getService
\* returns its entry.
C2_ClosedBelowThreshold ==
    \A n \in Names :
        (Registered(n) /\ reports[n].clean /\ reports[n].run < Threshold)
        => /\ n \in DOMAIN circuitBreakers
           /\ circuitBreakers[n].state = "closed"
           /\ Resolve(n) = "entry"
           /\ (last.op = "getService" /\ last.name = n) => last.val = "entry"

C2_Witness ==
    \E n \in Names :
        /\ reports[n].clean
        /\ reports[n].run = Threshold - 1
        /\ last = Call("getService", n, "entry", "none")

\* C3: getService on an open breaker whose last failure is more than Timeout
\* ago moves the breaker to half-open and returns the entry.
C3_HalfOpenAfterTimeout ==
    [][\A n \in Names :
         (/\ Resolved(n)
          /\ Registered(n)
          /\ n \in DOMAIN circuitBreakers
          /\ circuitBreakers[n].state = "open"
          /\ now - circuitBreakers[n].lastFailure > Timeout)
         => /\ circuitBreakers'[n].state = "half-open"
            /\ last'.val = "entry"]_vars

C3_Witness ==
    \E n \in Names :
        /\ last = Call("getService", n, "entry", "half-open")
        /\ circuitBreakers[n].state = "half-open"
        /\ now - circuitBreakers[n].lastFailure > Timeout

\* C4: a failure reported while the breaker is half-open opens it and sets the
\* time of its last failure to now.
C4_HalfOpenFailureOpens ==
    [][\A n \in Names :
         (/\ n \in DOMAIN circuitBreakers
          /\ circuitBreakers[n].state = "half-open"
          /\ FailureReported(n))
         => /\ circuitBreakers'[n].state = "open"
            /\ circuitBreakers'[n].lastFailure = now]_vars

\* C5: a success reported while the breaker is half-open closes it with no
\* failure counted, and a closed breaker lets getService return the entry and
\* stays closed while fewer than Threshold failures in a row are reported.
C5_HalfOpenSuccessCloses ==
    [][\A n \in Names :
         /\ (/\ n \in DOMAIN circuitBreakers
             /\ circuitBreakers[n].state = "half-open"
             /\ SuccessReported(n))
            => /\ circuitBreakers'[n].state = "closed"
               /\ circuitBreakers'[n].failures = 0
         /\ (/\ n \in DOMAIN circuitBreakers
             /\ circuitBreakers[n].state = "closed"
             /\ has(services', n)
             /\ reports'[n].run < Threshold)
            => /\ n \in DOMAIN circuitBreakers'
               /\ circuitBreakers'[n].state = "closed"
               /\ getServiceResult(services', circuitBreakers', n, now') = "entry"]_vars

C5_Witness ==
    \E n \in Names :
        /\ last = Call("recordSuccess", n, "undefined", "fechado")
        /\ circuitBreakers[n].state = "closed"
        /\ circuitBreakers[n].failures = 0

\* C6, as stated: while the breaker is half-open and the outcome of the trial
\* is not reported yet, getService throws CircuitOpen.
C6_OnlyOneTrial ==
    [][\A n \in Names :
         (/\ Resolved(n)
          /\ Registered(n)
          /\ n \in DOMAIN circuitBreakers
          /\ circuitBreakers[n].state = "half-open"
          /\ reports[n].run >= Threshold)
         => last'.val = "CircuitOpen"]_vars

\* C6, amended: while the breaker is half-open, every getService returns the
\* entry.
C6_HalfOpenAdmitsEveryLookup ==
    \A n \in Names :
        (/\ Registered(n)
         /\ n \in DOMAIN circuitBreakers
         /\ circuitBreakers[n].state = "half-open")
        => /\ Resolve(n) = "entry"
           /\ (last.op = "getService" /\ last.name = n) => last.val = "entry"

C6_Witness ==
    \E n \in Names :
        /\ last = Call("getService", n, "entry", "none")
        /\ circuitBreakers[n].state = "half-open"
        /\ reports[n].run >= Threshold

\* C7: after registerService(n) the table holds one entry named n, healthy, and
\* the breaker of n is closed with no failure counted, whatever they were.
C7_RegisterResets ==
    [][\A n \in Names :
         registerService(n)
         => /\ Cardinality({i \in 1..Len(services') : services'[i].name = n}) = 1
            /\ get(services', n).status = "healthy"
            /\ get(services', n).failureCount = 0
            /\ n \in DOMAIN circuitBreakers'
            /\ circuitBreakers'[n].state = "closed"
            /\ circuitBreakers'[n].failures = 0]_vars

\* n is registered anew (its write is in flight) while a sweep that began
\* before still holds the entry it replaced.
C7_Witness ==
    \E n \in Names :
        /\ \E w \in BagToSet(writes) : w.waiter = [op |-> "registerService", name |-> n]
        /\ \E todo \in BagToSet(sweeps) : todo[1].name = n /\ todo[1].stale
        /\ Len(services) = 1
        /\ get(services, n).status = "healthy"
        /\ circuitBreakers[n] = NewBreaker

\* C8: unregisterService of a name that is not in the table returns false and
\* changes neither the table, nor the breakers, nor the writes in flight, nor
\* the file.
C8_UnregisterUnknown ==
    [][\A n \in Names :
         (unregisterService(n) /\ ~Registered(n))
         => /\ last'.val = "false"
            /\ UNCHANGED <<services, circuitBreakers, writes, file>>]_vars

C8_Witness ==
    /\ last = Call("unregisterService", "svc-b", "false", "none")
    /\ services # <<>>
    /\ file.exists

\* C9: the names of the table are the names that have a breaker, after every
\* step; registerService puts the name in both, unregisterService of a name of
\* the table takes it out of both and will return true.
C9_TablePairedWithBreakers ==
    [][/\ NamesOf(services') = DOMAIN circuitBreakers'
       /\ Len(services') = Cardinality(NamesOf(services'))
       /\ \A n \in Names :
            /\ registerService(n)
               => n \in NamesOf(services') /\ n \in DOMAIN circuitBreakers'
            /\ (unregisterService(n) /\ Registered(n))
               => /\ n \notin NamesOf(services')
                  /\ n \notin DOMAIN circuitBreakers'
                  /\ \E w \in BagToSet(writes') :
                       /\ w.waiter.name = n
                       /\ Returned(w.waiter).val = "true"]_vars

\* unregisterService has returned true while a sweep still holds the entry.
C9_Witness ==
    \E n \in Names :
        /\ last = Call("unregisterService", n, "true", "none")
        /\ n \notin NamesOf(services)
        /\ n \notin DOMAIN circuitBreakers
        /\ sweeps # EmptyBag

\* C10: getService gives null for a name that is not in the table, whatever
\* was reported of it, and throws CircuitOpen only for a name of the table.
C10_NotFoundIsNotCircuitOpen ==
    \A n \in Names :
        /\ ~Registered(n) => Resolve(n) = "null"
        /\ Resolve(n) = "CircuitOpen" => Registered(n)
        /\ (last.op = "getService" /\ last.name = n)
           => /\ ~Registered(n) => last.val = "null"
              /\ last.val = "CircuitOpen" => Registered(n)

\* The name was unregistered with its breaker open, and is looked up.
C10_Witness ==
    \E n \in Names :
        /\ reports[n].run >= Threshold
        /\ ~Registered(n)
        /\ last = Call("getService", n, "null", "none")

\* C11: the status of an entry does not gate getService: for a name of the
\* table whose breaker is closed or half-open it returns the entry, healthy or
\* not; it fails only by CircuitOpen, and only on an open breaker whose timeout
\* has not elapsed.
C11_StatusDoesNotGate ==
    \A n \in Names :
        Registered(n)
        => LET b == circuitBreakers[n]
           IN  /\ b.state \in {"closed", "half-open"} => Resolve(n) = "entry"
               /\ Resolve(n) # "entry"
                  => /\ Resolve(n) = "CircuitOpen"
                     /\ b.state = "open"
                     /\ now - b.lastFailure <= Timeout
               /\ (last.op = "getService" /\ last.name = n)
                  => /\ b.state \in {"closed", "half-open"} => last.val = "entry"
                     /\ last.val # "entry"
                        => /\ last.val = "CircuitOpen"
                           /\ b.state = "open"
                           /\ now - b.lastFailure <= Timeout

\* getService returned an unhealthy entry whose breaker is closed.
C11_Witness ==
    \E n \in Names :
        /\ Registered(n)
        /\ get(services, n).status = "unhealthy"
        /\ circuitBreakers[n].state = "closed"
        /\ last = Call("getService", n, "entry", "none")

\* prefix is the start of name.
IsPrefix(prefix, name) == \E k \in 0..Len(name) : SubSeq(name, 1, k) = prefix

\* C12: getServiceWithLoadBalancing(prefix) gives, of the k entries that are
\* healthy and whose name starts with prefix, in the table's order, the one at
\* index (whole seconds of the clock) mod k, and null when k = 0; what it gives
\* is healthy and starts with prefix, and is the same at every instant of the
\* same second.
C12_PickByPrefix ==
    \A prefix \in Prefixes :
        LET good == {i \in 1..Len(services) :
                        /\ services[i].status = "healthy"
                        /\ IsPrefix(prefix, services[i].name)}
            k == Cardinality(good)
            second == now \div MillisPerSecond
            Pick(t) == getServiceWithLoadBalancingResult(services, prefix, t)
        IN  /\ k = 0 => Pick(now) = Null
            /\ k > 0 => \E i \in good :
                           /\ Pick(now) = services[i]
                           /\ Cardinality({j \in good : j < i}) = second % k
            /\ \A ms \in {0, 1, 499, 999} :
                    Pick(second * MillisPerSecond + ms) = Pick(now)
            /\ (last.op = "getServiceWithLoadBalancing" /\ last.name = prefix)
               => last.val = Pick(now).name

\* Of three replicas one is unhealthy, and the call gave the second of the two
\* healthy ones.
C12_Witness ==
    /\ Len(services) = 3
    /\ last.op = "getServiceWithLoadBalancing"
    /\ last.name = "svc"
    /\ \E u \in 1..3 : services[u].status = "unhealthy"
    /\ \E i, j \in 1..3 :
          /\ i < j
          /\ services[i].status = "healthy"
          /\ services[j].status = "healthy"
          /\ last.val = services[j].name

\* The entry carries tag.
Carries(service, tag) ==
    /\ "tags" \in DOMAIN service.metadata
    /\ tag \in Range(service.metadata.tags)

\* The listings of the table svcs are exactly what they are said to be.
ListingsExact(svcs) ==
    LET all == getAllServices(svcs)
        healthy == getHealthyServices(svcs)
    IN  /\ Range(all) = Range(svcs)
        /\ Range(healthy) = {service \in Range(svcs) : service.status = "healthy"}
        /\ Len(healthy) = Cardinality(Range(healthy))
        /\ Range(healthy) \subseteq Range(all)
        /\ \A tag \in Tags :
             LET tagged == findServicesByTag(svcs, tag)
             IN  /\ Range(tagged) = {service \in Range(svcs) :
                                        /\ service.status = "healthy"
                                        /\ Carries(service, tag)}
                 /\ Len(tagged) = Cardinality(Range(tagged))
                 /\ Range(tagged) \subseteq Range(all)

\* C13: in the state every step starts from (each state of the registry is
\* one: a listing can always be asked for) findServicesByTag(tag) is exactly
\* the healthy entries that carry tag and getHealthyServices() exactly the
\* healthy entries, both within getAllServices(), and a caller is given just
\* these;
\* an entry that a step turns from healthy to unhealthy is in
\* getHealthyServices() and in findServicesByTag of its tags before the step,
\* in neither after it, and still in getAllServices().
C13_ListingsFollowStatus ==
    [][/\ ListingsExact(services)
       /\ last'.op = "findServicesByTag"
          => last'.val = NamesList(findServicesByTag(services, last'.name))
       /\ last'.op = "getHealthyServices"
          => last'.val = NamesList(getHealthyServices(services))
       /\ last'.op = "getAllServices"
          => last'.val = NamesList(services)
       /\ services' # services
          => \A n \in NamesOf(services) :
            (/\ get(services, n).status = "healthy"
             /\ has(services', n)
             /\ get(services', n).status = "unhealthy")
            => /\ get(services, n) \in Range(getHealthyServices(services))
               /\ get(services', n) \notin Range(getHealthyServices(services'))
               /\ get(services', n) \in Range(getAllServices(services'))
               /\ \A tag \in Tags :
                    /\ Carries(get(services, n), tag)
                       => get(services, n) \in Range(findServicesByTag(services, tag))
                    /\ get(services', n) \notin Range(findServicesByTag(services', tag))
      ]_vars

\* svc-a was healthy, a probe of it failed, and findServicesByTag("items")
\* gave an empty array while getAllServices() still has two entries.
C13_Witness ==
    /\ Len(getAllServices(services)) = 2
    /\ has(services, "svc-a")
    /\ get(services, "svc-a").status = "unhealthy"
    /\ ~reports["svc-a"].clean
    /\ last.op = "findServicesByTag"
    /\ last.name = "items"
    /\ last.val = <<>>

\* A sweep is in progress: it awaits a probe, or the write it ends with.
SweepInProgress ==
    \/ sweeps # EmptyBag
    \/ \E w \in BagToSet(writes) : w.waiter.op = "sweep"

\* C14: when shutdown() returns no health sweep is in progress (so that none
\* changes an entry or a breaker or writes the snapshot after that).
C14_NoSweepWhenShutdownReturns == last.op = "shutdown" => ~SweepInProgress

\* The writes in flight that op awaits.
Awaited(ws, op) ==
    BagCardinality([w \in {x \in BagToSet(ws) : x.waiter.op = op} |-> ws[w]])

\* The step is a call of shutdown: it issues the write shutdown awaits.
ShutdownCalled == Awaited(writes', "shutdown") = Awaited(writes, "shutdown") + 1

\* The step is a tick of the timer: a sweep begins to probe, or, with nothing
\* to probe, to write.
SweepStarted ==
    \/ BagCardinality(sweeps') > BagCardinality(sweeps)
    \/ /\ sweeps' = sweeps
       /\ Awaited(writes', "sweep") = Awaited(writes, "sweep") + 1

Quiescent == sweeps = EmptyBag /\ writes = EmptyBag

\* C16: once the registry is quiescent the file holds the serialization of the
\* table as it is (no file yet only if nothing was ever written and the table
\* is empty), whatever the order in which the writes completed.
C16_SnapshotFollowsTable ==
    Quiescent
    => IF file.exists THEN file.content = Serialize(services)
       ELSE services = <<>>

\* The step is the settling of the write w that leaves the file as it was: a
\* write that failed (or one that wrote what the file held already).
SettlesWithoutWriting(w) ==
    /\ BagIn(w, writes)
    /\ writes' = writes (-) SetToBag({w})
    /\ file' = file

\* What each operation gives its caller when it completes normally.
Completes(waiter) ==
    CASE waiter.op = "registerService" -> Call("registerService", waiter.name, "entry", "none")
      [] waiter.op = "unregisterService" -> Call("unregisterService", waiter.name, "true", "none")
      [] waiter.op = "sweep" -> Call("sweep", "", "undefined", "none")
      [] waiter.op = "shutdown" -> Call("shutdown", "", "undefined", "none")

\* C17: a snapshot write that fails neither blocks nor fails an operation:
\* registerService has put the entry and its closed breaker in place and
\* unregisterService of a name of the table has taken both out before the write
\* is attempted, each with the write it awaits in flight; when a write settles
\* without writing, the call that awaits it (registerService, unregisterService,
\* the sweep, shutdown) completes in that step with its normal result and no
\* error, and the table, the breakers, the timer and the sweeps are as before.
C17_FailedWriteIsSwallowed ==
    [][/\ \A w \in BagToSet(writes) :
            SettlesWithoutWriting(w)
            => /\ last' = Completes(w.waiter)
               /\ last'.val # "SnapshotIOError"
               /\ UNCHANGED <<services, circuitBreakers, healthCheckTimer, sweeps>>
       /\ last'.val # "SnapshotIOError"
       /\ \A n \in Names :
            /\ registerService(n)
               => /\ has(services', n)
                  /\ circuitBreakers'[n] = NewBreaker
                  /\ \E w \in BagToSet(writes') :
                       /\ Completes(w.waiter) = Call("registerService", n, "entry", "none")
                       /\ writes'[w] > (IF BagIn(w, writes) THEN writes[w] ELSE 0)
            /\ (unregisterService(n) /\ Registered(n))
               => /\ ~has(services', n)
                  /\ n \notin DOMAIN circuitBreakers'
                  /\ \E w \in BagToSet(writes') :
                       /\ Completes(w.waiter) = Call("unregisterService", n, "true", "none")
                       /\ writes'[w] > (IF BagIn(w, writes) THEN writes[w] ELSE 0)
      ]_vars

\* registerService has returned the entry although its write failed (there is
\* no file), and the entry and its closed breaker are in place.
C17_Witness ==
    /\ last = Call("registerService", "svc-a", "entry", "none")
    /\ ~file.exists
    /\ has(services, "svc-a")
    /\ circuitBreakers["svc-a"] = NewBreaker

\* The registry is as its constructor leaves it.
Constructed ==
    /\ services = <<>>
    /\ DOMAIN circuitBreakers = {}
    /\ ~healthCheckTimer

\* C18: initialize() with a snapshot puts every entry of the snapshot in the
\* table with the fields the snapshot has for it, whatever its status and its
\* failure counter, and gives it a breaker that is closed with no failure
\* counted, whatever breaker the name had; in a registry just constructed the
\* table is then the snapshot's entries, in its order. initialize() without a
\* snapshot fails nothing and leaves table and breakers as they are: empty in a
\* registry just constructed. Either way the health checks are started.
C18_LoadResetsBreakers ==
    [][initialize
       => /\ file.exists
             => /\ \A i \in 1..Len(file.content) :
                     LET n == file.content[i][1]
                     IN  /\ has(services', n)
                         /\ get(services', n).name = n
                         /\ get(services', n).metadata = file.content[i][2]
                         /\ get(services', n).status = file.content[i][3]
                         /\ get(services', n).failureCount = file.content[i][4]
                         /\ n \in DOMAIN circuitBreakers'
                         /\ circuitBreakers'[n].state = "closed"
                         /\ circuitBreakers'[n].failures = 0
                /\ Constructed
                   => /\ Len(services') = Len(file.content)
                      /\ \A i \in 1..Len(file.content) :
                           services'[i].name = file.content[i][1]
                      /\ DOMAIN circuitBreakers' = NamesOf(services')
          /\ ~file.exists
             => /\ services' = services
                /\ circuitBreakers' = circuitBreakers
                /\ Constructed => services' = <<>>
          /\ last'.val \notin {"SnapshotIOError", "CircuitOpen"}
          /\ healthCheckTimer'
      ]_vars

\* An entry is in the table unhealthy with a failure counted, and nothing was
\* reported of it since its breaker, closed with no failure counted, was
\* created: initialize loaded it from the snapshot.
C18_Witness ==
    /\ has(services, "svc-a")
    /\ get(services, "svc-a").status = "unhealthy"
    /\ get(services, "svc-a").failureCount = 1
    /\ circuitBreakers["svc-a"] = NewBreaker
    /\ reports["svc-a"] = [run |-> 0, at |-> 0, clean |-> TRUE]
    /\ file = [exists |-> TRUE, content |-> Serialize(services)]
    /\ healthCheckTimer
\* C19: the circuit opens only on failures in a row: a breaker that is closed
\* is closed after every step that leaves fewer than Threshold failures
\* reported in a row since the last success (or since the breaker was
\* created), however many were reported before that success; the count of
\* the breaker is the number of these failures in a row, 0 after a success;
\* and the step that opens a closed breaker reports the failure that makes
\* Threshold in a row.
C19_OpensOnlyOnConsecutiveFailures ==
    [][\A n \in Names :
         (n \in DOMAIN circuitBreakers /\ n \in DOMAIN circuitBreakers')
         => /\ (circuitBreakers[n].state = "closed" /\ reports'[n].run < Threshold)
               => circuitBreakers'[n].state = "closed"
            /\ circuitBreakers'[n].failures = reports'[n].run
            /\ (circuitBreakers[n].state = "closed" /\ circuitBreakers'[n].state = "open")
               => /\ FailureReported(n)
                  /\ reports'[n].run >= Threshold
                  /\ circuitBreakers'[n].failures >= Threshold
      ]_vars

\* After a success, failures were reported anew, one fewer than Threshold: the
\* breaker is closed and has counted just these.
C19_Witness ==
    \E n \in Names :
        /\ Registered(n)
        /\ ~reports[n].clean
        /\ reports[n].run = Threshold - 1
        /\ circuitBreakers[n].state = "closed"
        /\ circuitBreakers[n].failures = Threshold - 1
        /\ Resolve(n) = "entry"
\* C20: every probe that completes, of an entry that is in the table, is taken
\* as a success (the entry is healthy with failureCount 0 and the breaker gets
\* recordSuccess) or as a failure (the entry is unhealthy with failureCount one
\* more and the breaker gets recordFailure): none leaves both as they were.
C20_ProbeClassified ==
    [][\A todo \in BagToSet(sweeps) : \A outcome \in {"ok", "other", "error"} :
         (ProbeSettles(todo, outcome, FALSE) /\ ~todo[1].stale)
         => LET n == todo[1].name
            IN  \/ /\ get(services', n).status = "healthy"
                   /\ get(services', n).failureCount = 0
                   /\ circuitBreakers' = recordSuccess(circuitBreakers, n)
                   /\ reports' = reportSuccess(reports, n)
                \/ /\ get(services', n).status = "unhealthy"
                   /\ get(services', n).failureCount = get(services, n).failureCount + 1
                   /\ circuitBreakers' = recordFailure(circuitBreakers, n, now)
                   /\ reports' = reportFailure(reports, n, now)
      ]_vars
Open(n) == n \in DOMAIN circuitBreakers /\ circuitBreakers[n].state = "open"

\* C21: a breaker that is open leaves the open state at some later time, as
\* time keeps passing and getService keeps being called, also while the
\* sweeps and the callers keep recording failures.
C21_OpenIsTemporary == \A n \in Names : Open(n) ~> ~Open(n)
\* C22: the failureCount of an entry mirrors the count of its breaker, after
\* any reports by callers and probes.
C22_EntryMirrorsBreaker ==
    \A n \in Names :
        Registered(n)
        => /\ n \in DOMAIN circuitBreakers
           /\ get(services, n).failureCount = circuitBreakers[n].failures
\* C23: the status of an entry follows the reports of callers: a success
\* reported by a caller for an unhealthy entry makes it healthy (and a failure
\* reported by a caller is a step that may make a healthy entry unhealthy).
C23_StatusFollowsReports ==
    [][\A n \in Names :
         (/\ RecordSuccess(n)
          /\ Registered(n)
          /\ get(services, n).status = "unhealthy")
         => get(services', n).status = "healthy"]_vars
\* C24: getService on an open breaker whose last failure is Timeout ago or
\* more, so also exactly Timeout ago, moves the breaker to half-open and
\* returns the entry; it throws CircuitOpen only when less than Timeout has
\* passed.
C24_EligibleAtTimeout ==
    [][\A n \in Names :
         (/\ Resolved(n)
          /\ Registered(n)
          /\ n \in DOMAIN circuitBreakers
          /\ circuitBreakers[n].state = "open")
         => /\ now - circuitBreakers[n].lastFailure >= Timeout
               => /\ circuitBreakers'[n].state = "half-open"
                  /\ last'.val = "entry"
            /\ last'.val = "CircuitOpen"
               => now - circuitBreakers[n].lastFailure < Timeout]_vars
\* C25: within one sweep the probes do not wait for each other: while a probe
\* is pending, the probe of every other entry the sweep still has to do is in
\* flight too, and can complete.
C25_ProbesIndependent ==
    \A todo \in BagToSet(sweeps) :
        \A i \in DOMAIN todo : todo[i].name \in InFlight(todo)
\* The step is a report of a caller for n.
ReportedBy(n) ==
    /\ last'.op \in {"recordSuccess", "recordFailure"}
    /\ last'.name = n

\* C26: recordSuccess(n) and recordFailure(n) for a name that is not in the
\* table change neither the table nor the breakers (n gets no breaker), issue
\* no write and leave the file as it is.
C26_ReportOfUnknownIsNoOp ==
    [][\A n \in Names :
         (ReportedBy(n) /\ ~Registered(n))
         => /\ UNCHANGED <<services, circuitBreakers, writes, file>>
            /\ n \notin DOMAIN circuitBreakers'
            /\ last'.log = "none"]_vars

\* A failure was reported for a name that is not in the table, of a registry
\* that holds an entry or has saved one.
C26_Witness ==
    /\ last.op = "recordFailure"
    /\ ~Registered(last.name)
    /\ last.name \notin DOMAIN circuitBreakers
    /\ services # <<>> \/ file.exists
\* C27: a makeServiceRequest that getService refuses with CircuitOpen is no
\* failure of the service: the count of the breaker and the time of its last
\* failure are as before, so that the refused requests do not put off the
\* time at which the breaker may go half-open.
C27_RejectionIsNoFailure ==
    [][\A n \in Names :
         (/\ last'.op = "makeServiceRequest"
          /\ last'.name = n
          /\ last'.val = "CircuitOpen")
         => /\ circuitBreakers'[n].failures = circuitBreakers[n].failures
            /\ circuitBreakers'[n].lastFailure = circuitBreakers[n].lastFailure]_vars
\* C28: a breaker that is open has counted at least Threshold failures, in
\* every state, also after a success reported while it was open.
C28_OpenHasThresholdFailures ==
    \A n \in DOMAIN circuitBreakers :
        circuitBreakers[n].state = "open" => circuitBreakers[n].failures >= Threshold
\* C29: a stale probe has no effect: when the probe of an entry that was
\* unregistered or registered anew since the sweep listed it settles, the
\* table and the breakers are as before: no entry and no breaker is added,
\* and the entry registered anew keeps its status, its failureCount and its
\* breaker.
C29_StaleProbeHasNoEffect ==
    [][\A todo \in BagToSet(sweeps) : \A outcome \in {"ok", "other", "error"} :
         (ProbeSettles(todo, outcome, FALSE) /\ todo[1].stale)
         => UNCHANGED <<services, circuitBreakers>>]_vars
\* C30: at most one sweep is in progress at any time: the timer starts no
\* sweep while the sweep of an earlier tick still awaits a probe or its write.
C30_OneSweepAtATime == [][SweepStarted => ~SweepInProgress]_vars
====
